---- MODULE Spec2Model ----
(***************************************************************************)
(* A model of the isf crate (src/src/lib.rs): extraction of the top        *)
(* comment of a GLSL source, decoding of its JSON into an Isf, encoding of *)
(* the Isf back into JSON and decoding of that JSON again.                 *)
(*                                                                         *)
(* A JSON text is represented by the serde_json::Value it parses to:       *)
(*   [t |-> "null"], [t |-> "bool", b], [t |-> "num", n], [t |-> "str", s],*)
(*   [t |-> "arr", a] (a sequence), [t |-> "obj", o] (a function from the  *)
(*   keys that are present to their values).                               *)
(* A serde_json Number is [k, v, e]: k = "u64" (PosInt) or "i64" (NegInt)  *)
(* with the value v and e = 0, or k = "f64" (Float) with the value         *)
(* (v / 2) * 10^e; the floats of the model are the half-integers (which    *)
(* f32 and f64 both hold exactly) and the half-integers times 10^BigExp    *)
(* (which f64 holds and f32 does not).                                     *)
(***************************************************************************)
EXTENDS Integers, Sequences, FiniteSets, TLC

(* ------------------------------ bounds -------------------------------- *)
\* Longest source text, in characters.
MaxLen == 6
\* Numbers of the JSON inputs range over -MaxNum .. MaxNum (and halves).
MaxNum == 1
\* Longest JSON array given for a point2D / color value.
MaxArr == 3
\* Decimal exponent of the large floats (1e40 does not fit an f32).
BigExp == 40

(* --------------------------- JSON values ------------------------------ *)
Null == [t |-> "null"]
Bool(b) == [t |-> "bool", b |-> b]
Num(n) == [t |-> "num", n |-> n]
Str(s) == [t |-> "str", s |-> s]
Arr(a) == [t |-> "arr", a |-> a]
Obj(o) == [t |-> "obj", o |-> o]

PosInt(v) == [k |-> "u64", v |-> v, e |-> 0]
NegInt(v) == [k |-> "i64", v |-> v, e |-> 0]
Float(h, e) == [k |-> "f64", v |-> h, e |-> e]
\* serde_json's parse of an integer literal: PosInt when non-negative.
Int2Num(i) == IF i >= 0 THEN PosInt(i) ELSE NegInt(i)

Has(o, key) == key \in DOMAIN o

(* Option<T> and Result<T, E>. An Err carries how the call ended: "err" is *)
(* a returned serde error, "panic" an unwinding panic.                     *)
None == [some |-> FALSE]
Some(x) == [some |-> TRUE, val |-> x]
Ok(x) == [ok |-> TRUE, val |-> x]
Err(how) == [ok |-> FALSE, how |-> how]

(* --------------------- number to string (to_string) ------------------- *)
DigitChar(d) ==
    CASE d = 0 -> "0" [] d = 1 -> "1" [] d = 2 -> "2" [] d = 3 -> "3"
      [] d = 4 -> "4" [] d = 5 -> "5" [] d = 6 -> "6" [] d = 7 -> "7"
      [] d = 8 -> "8" [] d = 9 -> "9"

RECURSIVE NatToString(_)
NatToString(n) ==
    IF n < 10 THEN DigitChar(n)
    ELSE NatToString(n \div 10) \o DigitChar(n % 10)

IntToString(i) == IF i < 0 THEN "-" \o NatToString(-i) ELSE NatToString(i)

Abs(i) == IF i < 0 THEN -i ELSE i

\* Number::to_string: integers in decimal; floats in the shortest form that
\* reads back (640.0 -> "640.0", 1.5 -> "1.5", 1e40 -> "1e40").
NumberToString(n) ==
    IF n.k # "f64" THEN IntToString(n.v)
    ELSE LET sign == IF n.v < 0 THEN "-" ELSE ""
             whole == NatToString(Abs(n.v) \div 2)
             half == Abs(n.v) % 2 = 1
         IN  IF n.e = 0
             THEN sign \o whole \o (IF half THEN ".5" ELSE ".0")
             ELSE sign \o whole \o (IF half THEN ".5" ELSE "")
                       \o "e" \o NatToString(n.e)

(* ------------------------ value coercion layer ------------------------ *)
is_u64(n) == n.k = "u64"
is_f64(n) == n.k = "f64"

\* `n.as_f64().unwrap() as u64 != 0`: the cast truncates toward zero and
\* saturates, so a negative float gives 0 and one of 1.0 or more is nonzero.
F64AsU64NonZero(n) == n.v > 0 /\ (n.e > 0 \/ n.v >= 2)

\* serde_json::from_value::<bool>
FromValueBool(v) == IF v.t = "bool" THEN Ok(v.b) ELSE Err("err")

\* serde_json::from_value::<Option<bool>>
FromValueOptBool(v) ==
    IF v.t = "null" THEN Ok(None)
    ELSE IF v.t = "bool" THEN Ok(Some(v.b)) ELSE Err("err")

\* serde_json::from_value::<String>
FromValueString(v) == IF v.t = "str" THEN Ok(v.s) ELSE Err("err")

\* serde_json::from_value::<Option<String>>
FromValueOptString(v) ==
    IF v.t = "null" THEN Ok(None)
    ELSE IF v.t = "str" THEN Ok(Some(v.s)) ELSE Err("err")

\* deserialize_bool with the integer arm taking the negative integers too
\* (as_i64 in place of as_u64).
deserialize_bool_accepting_negatives(v) ==
    IF v.t = "bool" THEN Ok(v.b)
    ELSE IF v.t = "num" /\ ~is_f64(v.n) THEN Ok(v.n.v # 0)
    ELSE IF v.t = "num" /\ is_f64(v.n) THEN Ok(F64AsU64NonZero(v.n))
    ELSE FromValueBool(v)

\* deserialize_bool without the is_f64 arm.
deserialize_bool_without_floats(v) ==
    IF v.t = "bool" THEN Ok(v.b)
    ELSE IF v.t = "num" /\ is_u64(v.n) THEN Ok(v.n.v # 0)
    ELSE FromValueBool(v)

\* deserialize_bool of a present value
deserialize_bool(v) ==
    IF v.t = "bool" THEN Ok(v.b)
    ELSE IF v.t = "num" /\ is_u64(v.n) THEN Ok(v.n.v # 0)
    ELSE IF v.t = "num" /\ is_f64(v.n) THEN Ok(F64AsU64NonZero(v.n))
    ELSE FromValueBool(v)

\* deserialize_opt_string writing a float as an integer and giving None for
\* the shapes it should refuse.
deserialize_opt_string_lossy(v) ==
    IF v.t = "null" THEN Ok(None)
    ELSE IF v.t = "num" THEN Ok(Some(IntToString(v.n.v \div (IF is_f64(v.n) THEN 2 ELSE 1))))
    ELSE IF v.t = "str" THEN Ok(Some(v.s))
    ELSE Ok(None)

\* deserialize_opt_string of a present value (Option<Value>: null is None)
deserialize_opt_string(v) ==
    IF v.t = "null" THEN Ok(None)
    ELSE IF v.t = "num" THEN Ok(Some(NumberToString(v.n)))
    ELSE IF v.t = "str" THEN Ok(Some(v.s))
    ELSE FromValueOptString(v)

(* f32 values: [c |-> "fin", v, e] is (v / 2) * 10^e, [c |-> "inf"] and   *)
(* [c |-> "-inf"] the infinities an `as f32` cast overflows to.            *)
Fin(v, e) == [c |-> "fin", v |-> v, e |-> e]
Inf(neg) == [c |-> IF neg THEN "-inf" ELSE "inf", v |-> 0, e |-> 0]

\* serde's f32 visitor: visit_u64 / visit_i64 / visit_f64 cast with `as`.
\* A float of 0.5e39 or more is beyond f32::MAX (3.4e38) and casts to an
\* infinity; the floats of the model with e = 0 are below 2^31.
NumberAsF32(n) ==
    IF ~is_f64(n) THEN Fin(2 * n.v, 0)
    ELSE IF n.v # 0 /\ n.e > 38 THEN Inf(n.v < 0)
    ELSE Fin(n.v, IF n.v = 0 THEN 0 ELSE n.e)

\* serde_json::from_value::<i32>
FromValueI32(v) ==
    IF v.t = "num" /\ ~is_f64(v.n)
       /\ v.n.v >= -2147483647 - 1 /\ v.n.v <= 2147483647
    THEN Ok(v.n.v) ELSE Err("err")

\* serde_json::from_value::<u32>; the integers of the model are below 2^31.
FromValueU32(v) ==
    IF v.t = "num" /\ is_u64(v.n) THEN Ok(v.n.v) ELSE Err("err")

\* serde_json::from_value::<Option<u32>>
FromValueOptU32(v) ==
    IF v.t = "null" THEN Ok(None)
    ELSE IF FromValueU32(v).ok THEN Ok(Some(FromValueU32(v).val)) ELSE Err("err")

\* serde_json::from_value::<f32>
FromValueF32(v) == IF v.t = "num" THEN Ok(NumberAsF32(v.n)) ELSE Err("err")

\* serde_json::from_value::<T> for the element types "i32", "f32", "String"
FromValueElem(ty, v) ==
    CASE ty = "i32" -> FromValueI32(v)
      [] ty = "f32" -> FromValueF32(v)
      [] ty = "String" -> FromValueString(v)

\* serde_json::from_value::<Vec<T>>, ty naming T
FromValueVec(v, ty) ==
    IF v.t = "arr" /\ \A i \in 1..Len(v.a) : FromValueElem(ty, v.a[i]).ok
    THEN Ok([i \in 1..Len(v.a) |-> FromValueElem(ty, v.a[i]).val])
    ELSE Err("err")

\* serde_json::from_value::<[f32; 2]>: exactly two elements
FromValuePt2(v) ==
    IF v.t = "arr" /\ Len(v.a) = 2 THEN FromValueVec(v, "f32") ELSE Err("err")

FromValueVecF32(v) == FromValueVec(v, "f32")

\* serde_json::from_value::<T> for the T of an InputValues<T>
FromValueAs(ty, v) ==
    CASE ty = "i32" -> FromValueI32(v)
      [] ty = "f32" -> FromValueF32(v)
      [] ty = "[f32; 2]" -> FromValuePt2(v)
      [] ty = "Vec<f32>" -> FromValueVecF32(v)

\* Value::from(f32): a non-finite float has no JSON number and becomes null.
F32ToValue(f) == IF f.c = "fin" THEN Num(Float(f.v, f.e)) ELSE Null
I32ToValue(i) == Num(Int2Num(i))
U32ToValue(u) == Num(PosInt(u))
VecF32ToValue(s) == Arr([i \in 1..Len(s) |-> F32ToValue(s[i])])
pt2_to_json_value(p) == Arr(<<F32ToValue(p[1]), F32ToValue(p[2])>>)

\* Into<serde_json::Value> (Value::from) of the types the encoder converts
IntoValue(ty, x) ==
    CASE ty = "bool" -> Bool(x)
      [] ty = "i32" -> I32ToValue(x)
      [] ty = "u32" -> U32ToValue(x)
      [] ty = "f32" -> F32ToValue(x)
      [] ty = "[f32; 2]" -> pt2_to_json_value(x)
      [] ty = "Vec<f32>" -> VecF32ToValue(x)

(* ------------------------------ Input --------------------------------- *)
\* A field declared Option<serde_json::Value>: an absent key and a null
\* both give None.
OptValueField(o, key) ==
    IF Has(o, key) /\ o[key].t # "null" THEN Some(o[key]) ELSE None

\* A field declared Option<String>.
OptStringField(o, key) ==
    IF Has(o, key) THEN FromValueOptString(o[key]) ELSE Ok(None)

\* A field declared String, without a default.
StringField(o, key) ==
    IF Has(o, key) THEN FromValueString(o[key]) ELSE Err("err")

\* A field declared Vec<T> with #[serde(default)], ty naming T.
VecField(o, key, ty) ==
    IF Has(o, key) THEN FromValueVec(o[key], ty) ELSE Ok(<<>>)

\* The InputDict of the decoded fields; the first that failed fails it.
InputDictOf(o, name, label, ty, values, labels) ==
    IF name.ok /\ label.ok /\ ty.ok /\ values.ok /\ labels.ok
    THEN Ok([name |-> name.val, label |-> label.val, ty |-> ty.val,
             default |-> OptValueField(o, "DEFAULT"),
             min |-> OptValueField(o, "MIN"),
             max |-> OptValueField(o, "MAX"),
             identity |-> OptValueField(o, "IDENTITY"),
             values |-> values.val, labels |-> labels.val])
    ELSE Err("err")

OrEmpty(r) == IF r.ok THEN r ELSE Ok(<<>>)

\* InputDict with VALUES and LABELS held as untyped values: a list of
\* another shape is dropped instead of refused.
InputDictDeserialize_defaulting_lists(v) ==
    IF v.t # "obj" THEN Err("err")
    ELSE InputDictOf(v.o, StringField(v.o, "NAME"), OptStringField(v.o, "LABEL"),
                     StringField(v.o, "TYPE"),
                     OrEmpty(VecField(v.o, "VALUES", "i32")),
                     OrEmpty(VecField(v.o, "LABELS", "String")))

\* The derived Deserialize of InputDict, from a JSON object.
InputDictDeserialize(v) ==
    IF v.t # "obj" THEN Err("err")
    ELSE InputDictOf(v.o, StringField(v.o, "NAME"), OptStringField(v.o, "LABEL"),
                     StringField(v.o, "TYPE"),
                     VecField(v.o, "VALUES", "i32"),
                     VecField(v.o, "LABELS", "String"))

\* `Some(serde_json::from_value(t)?)`
SomeOrErr(r) == IF r.ok THEN Ok(Some(r.val)) ELSE Err("err")

\* One field of InputValues::from_opts, ty naming T.
FromOpt(opt, ty) ==
    IF opt.some THEN SomeOrErr(FromValueAs(ty, opt.val)) ELSE Ok(None)

\* The InputValues of the four decoded fields.
InputValuesOf(d, mn, mx, id) ==
    IF d.ok /\ mn.ok /\ mx.ok /\ id.ok
    THEN Ok([default |-> d.val, min |-> mn.val, max |-> mx.val,
             identity |-> id.val])
    ELSE Err("err")

\* InputValues::<T>::from_opts, ty naming T
from_opts(default, min, max, identity, ty) ==
    InputValuesOf(FromOpt(default, ty), FromOpt(min, ty), FromOpt(max, ty),
                  FromOpt(identity, ty))

\* The "bool" arm: the DEFAULT of a bool input.
BoolDefault(default) ==
    IF ~default.some THEN Ok(None)
    ELSE IF default.val.t = "bool" THEN Ok(Some(default.val.b))
    ELSE IF default.val.t = "num" /\ is_u64(default.val.n)
         THEN Ok(Some(default.val.n.v # 0))
    ELSE IF default.val.t = "num" /\ is_f64(default.val.n)
         THEN Ok(Some(F64AsU64NonZero(default.val.n)))
    ELSE FromValueOptBool(default.val)

\* The audio arms reading DEFAULT in place of MAX.
AudioMax_from_default(dict) ==
    IF dict.default.some THEN FromValueOptU32(dict.default.val) ELSE Ok(None)

\* The "audio" and "audioFFT" arms: MAX read as Option<u32>.
AudioMax(dict) ==
    IF dict.max.some THEN FromValueOptU32(dict.max.val) ELSE Ok(None)

\* The InputType each arm builds from its decoded payload.
BoolArm(d) ==
    IF d.ok THEN Ok([tag |-> "Bool", bool |-> [default |-> d.val]]) ELSE Err("err")
LongArm(iv, values, labels) ==
    IF iv.ok
    THEN Ok([tag |-> "Long",
             long |-> [input_values |-> iv.val, values |-> values,
                       labels |-> labels]])
    ELSE Err("err")
FloatArm(iv) == IF iv.ok THEN Ok([tag |-> "Float", float |-> iv.val]) ELSE Err("err")
Point2dArm(iv) ==
    IF iv.ok THEN Ok([tag |-> "Point2d", point2d |-> iv.val]) ELSE Err("err")
ColorArm(iv) == IF iv.ok THEN Ok([tag |-> "Color", color |-> iv.val]) ELSE Err("err")
AudioArm(m) ==
    IF m.ok THEN Ok([tag |-> "Audio", audio |-> [num_samples |-> m.val]])
    ELSE Err("err")
AudioFftArm(m) ==
    IF m.ok THEN Ok([tag |-> "AudioFft", audio_fft |-> [num_columns |-> m.val]])
    ELSE Err("err")

\* The match on the TYPE string; an unknown tag reaches unimplemented!().
InputTypeOf(dict) ==
    CASE dict.ty = "event" -> Ok([tag |-> "Event"])
      [] dict.ty = "bool" -> BoolArm(BoolDefault(dict.default))
      [] dict.ty = "long" ->
           LongArm(from_opts(dict.default, dict.min, dict.max, dict.identity, "i32"),
                   dict.values, dict.labels)
      [] dict.ty = "float" ->
           FloatArm(from_opts(dict.default, dict.min, dict.max, dict.identity, "f32"))
      [] dict.ty = "point2D" ->
           Point2dArm(from_opts(dict.default, dict.min, dict.max, dict.identity,
                                "[f32; 2]"))
      [] dict.ty = "color" ->
           ColorArm(from_opts(dict.default, dict.min, dict.max, dict.identity,
                              "Vec<f32>"))
      [] dict.ty = "image" -> Ok([tag |-> "Image"])
      [] dict.ty = "audio" -> AudioArm(AudioMax(dict))
      [] dict.ty = "audioFFT" -> AudioFftArm(AudioMax(dict))
      [] OTHER -> Err("panic")

\* `Ok(Input { name, label, ty })`, or the way the match ended.
InputWith(dict, ty) ==
    IF ty.ok THEN Ok([name |-> dict.name, label |-> dict.label, ty |-> ty.val])
    ELSE Err(ty.how)

\* The body of deserialize after `InputDict::deserialize(d)?`.
InputOf(dict) ==
    IF dict.ok THEN InputWith(dict.val, InputTypeOf(dict.val)) ELSE Err("err")

\* <Input as Deserialize>::deserialize
InputDeserialize(v) == InputOf(InputDictDeserialize(v))

\* Option<Value> / Option<String> as the derived Serialize writes them.
OptValueToJson(opt) == IF opt.some THEN opt.val ELSE Null
OptStringToJson(opt) == IF opt.some THEN Str(opt.val) ELSE Null
\* Option<T>::map(Into::into), ty naming T
MapOpt(opt, ty) == IF opt.some THEN Some(IntoValue(ty, opt.val)) ELSE None

\* The dict built at the head of <Input as Serialize>::serialize.
EmptyDict(input) ==
    [name |-> input.name, label |-> input.label, ty |-> "",
     default |-> None, min |-> None, max |-> None, identity |-> None,
     values |-> <<>>, labels |-> <<>>]

\* InputValues::<T>::write_to_dict, ty naming T
write_to_dict(iv, dict, ty) ==
    [dict EXCEPT !.default = MapOpt(iv.default, ty),
                 !.min = MapOpt(iv.min, ty),
                 !.max = MapOpt(iv.max, ty),
                 !.identity = MapOpt(iv.identity, ty)]

\* The match of <Input as Serialize>::serialize on a dict.
DictOf(dict, ty) ==
    CASE ty.tag = "Event" -> [dict EXCEPT !.ty = "event"]
      [] ty.tag = "Bool" ->
           [dict EXCEPT !.ty = "bool", !.default = MapOpt(ty.bool.default, "bool")]
      [] ty.tag = "Long" ->
           [write_to_dict(ty.long.input_values, dict, "i32")
               EXCEPT !.ty = "long",
                      !.values = ty.long.values,
                      !.labels = ty.long.labels]
      [] ty.tag = "Float" ->
           [write_to_dict(ty.float, dict, "f32") EXCEPT !.ty = "float"]
      [] ty.tag = "Point2d" ->
           [write_to_dict(ty.point2d, dict, "[f32; 2]") EXCEPT !.ty = "point2D"]
      [] ty.tag = "Color" ->
           [write_to_dict(ty.color, dict, "Vec<f32>") EXCEPT !.ty = "color"]
      [] ty.tag = "Image" -> [dict EXCEPT !.ty = "image"]
      [] ty.tag = "Audio" ->
           [dict EXCEPT !.ty = "audio", !.max = MapOpt(ty.audio.num_samples, "u32")]
      [] ty.tag = "AudioFft" ->
           [dict EXCEPT !.ty = "audioFFT",
                        !.max = MapOpt(ty.audio_fft.num_columns, "u32")]

\* The dict <Input as Serialize>::serialize fills for an input.
InputToDict(input) == DictOf(EmptyDict(input), input.ty)

\* The derived Serialize of InputDict: every field is written.
InputDictSerialize(dict) ==
    Obj([NAME |-> Str(dict.name),
         LABEL |-> OptStringToJson(dict.label),
         TYPE |-> Str(dict.ty),
         DEFAULT |-> OptValueToJson(dict.default),
         MIN |-> OptValueToJson(dict.min),
         MAX |-> OptValueToJson(dict.max),
         IDENTITY |-> OptValueToJson(dict.identity),
         VALUES |-> Arr([i \in 1..Len(dict.values) |-> I32ToValue(dict.values[i])]),
         LABELS |-> Arr([i \in 1..Len(dict.labels) |-> Str(dict.labels[i])])])

\* <Input as Serialize>::serialize
InputSerialize(input) == InputDictSerialize(InputToDict(input))

(* --------------------------- Pass and Isf ----------------------------- *)
\* A Pass field with #[serde(default, deserialize_with = "deserialize_bool")]
BoolField(o, key) == IF Has(o, key) THEN deserialize_bool(o[key]) ELSE Ok(FALSE)

\* A Pass field with #[serde(default, deserialize_with = "deserialize_opt_string")]
DimField(o, key) == IF Has(o, key) THEN deserialize_opt_string(o[key]) ELSE Ok(None)

\* The Pass of the decoded fields; one that failed fails it.
PassOf(target, persistent, float, width, height) ==
    IF target.ok /\ persistent.ok /\ float.ok /\ width.ok /\ height.ok
    THEN Ok([target |-> target.val, persistent |-> persistent.val,
             float |-> float.val, width |-> width.val, height |-> height.val])
    ELSE Err("err")

\* The derived Deserialize of Pass, from a JSON object.
PassDeserialize(v) ==
    IF v.t # "obj" THEN Err("err")
    ELSE PassOf(OptStringField(v.o, "TARGET"), BoolField(v.o, "PERSISTENT"),
                BoolField(v.o, "FLOAT"), DimField(v.o, "WIDTH"),
                DimField(v.o, "HEIGHT"))

\* The derived Serialize of Pass.
PassSerialize(pass) ==
    Obj([TARGET |-> OptStringToJson(pass.target),
         PERSISTENT |-> Bool(pass.persistent),
         FLOAT |-> Bool(pass.float),
         WIDTH |-> OptStringToJson(pass.width),
         HEIGHT |-> OptStringToJson(pass.height)])

\* The derived Deserialize / Serialize of ImageImport.
ImageImportOf(path) == IF path.ok THEN Ok([path |-> path.val]) ELSE Err("err")
ImageImportDeserialize(v) ==
    IF v.t = "obj" THEN ImageImportOf(StringField(v.o, "PATH")) ELSE Err("err")

ImageImportSerialize(import) == Obj([PATH |-> Str(import.path)])

\* The index of the first result that failed.
FirstFailed(rs) ==
    CHOOSE i \in 1..Len(rs) : ~rs[i].ok /\ \A j \in 1..(i - 1) : rs[j].ok

\* A Vec<T> decoded element by element: the first element that fails ends
\* the decode the way that element ended.
SeqResult(rs) ==
    IF \A i \in 1..Len(rs) : rs[i].ok THEN Ok([i \in 1..Len(rs) |-> rs[i].val])
    ELSE Err(rs[FirstFailed(rs)].how)

\* The Deserialize of the element types of Isf's Vec fields.
DeserializeElem(ty, v) ==
    CASE ty = "String" -> FromValueString(v)
      [] ty = "Input" -> InputDeserialize(v)
      [] ty = "Pass" -> PassDeserialize(v)

\* A field declared Vec<T> with #[serde(default)], ty naming T.
SeqField(o, key, ty) ==
    IF ~Has(o, key) THEN Ok(<<>>)
    ELSE IF o[key].t # "arr" THEN Err("err")
    ELSE SeqResult([i \in 1..Len(o[key].a) |-> DeserializeElem(ty, o[key].a[i])])

\* BTreeMap<String, ImageImport> from a JSON object.
ImportsOf(m) ==
    IF \A key \in DOMAIN m : ImageImportDeserialize(m[key]).ok
    THEN Ok([key \in DOMAIN m |-> ImageImportDeserialize(m[key]).val])
    ELSE Err("err")

\* The IMPORTED field: BTreeMap<String, ImageImport> with #[serde(default)].
ImportedField(o) ==
    IF ~Has(o, "IMPORTED") THEN Ok(<<>>)
    ELSE IF o["IMPORTED"].t # "obj" THEN Err("err")
    ELSE ImportsOf(o["IMPORTED"].o)

\* The Isf of its seven decoded fields, in the order of the struct: the
\* first field that failed ends the decode the way it ended.
IsfOf(all) ==
    IF \A i \in 1..Len(all) : all[i].ok
    THEN Ok([isfvsn |-> all[1].val, vsn |-> all[2].val,
             description |-> all[3].val, categories |-> all[4].val,
             inputs |-> all[5].val, passes |-> all[6].val,
             imported |-> all[7].val])
    ELSE Err(all[FirstFailed(all)].how)

\* The derived Deserialize of Isf, from a JSON object whose keys stand in
\* the order of the struct's fields.
IsfDeserialize(v) ==
    IF v.t # "obj" THEN Err("err")
    ELSE IsfOf(<<OptStringField(v.o, "ISFVSN"), OptStringField(v.o, "VSN"),
                 OptStringField(v.o, "DESCRIPTION"),
                 SeqField(v.o, "CATEGORIES", "String"),
                 SeqField(v.o, "INPUTS", "Input"),
                 SeqField(v.o, "PASSES", "Pass"),
                 ImportedField(v.o)>>)

\* The derived Serialize of Isf: every field is written.
IsfSerialize(isf) ==
    Obj([ISFVSN |-> OptStringToJson(isf.isfvsn),
         VSN |-> OptStringToJson(isf.vsn),
         DESCRIPTION |-> OptStringToJson(isf.description),
         CATEGORIES |-> Arr([i \in 1..Len(isf.categories) |->
                                Str(isf.categories[i])]),
         INPUTS |-> Arr([i \in 1..Len(isf.inputs) |->
                            InputSerialize(isf.inputs[i])]),
         PASSES |-> Arr([i \in 1..Len(isf.passes) |->
                            PassSerialize(isf.passes[i])]),
         IMPORTED |-> Obj([key \in DOMAIN isf.imported |->
                              ImageImportSerialize(isf.imported[key])])])

(* ------------------------- top comment, parse ------------------------- *)
(* A source text is a sequence of the characters "/", "*", " " and "J";    *)
(* "J" stands for the whole text of one JSON document, the state's doc,    *)
(* which holds neither a comment opener nor a comment closer.              *)

\* The indices at which the two characters a, b stand in s.
Hits(s, a, b) == {i \in 1..(Len(s) - 1) : s[i] = a /\ s[i + 1] = b}

\* The least element of a set of indices, 0 for the empty set.
Least(hits) ==
    IF hits = {} THEN 0 ELSE CHOOSE i \in hits : \A j \in hits : i <= j

\* str::find of a two-character pattern: the first index, 0 for None.
Find(s, a, b) == Least(Hits(s, a, b))

\* str::trim
RECURSIVE Trim(_)
Trim(s) ==
    IF s = <<>> THEN s
    ELSE IF Head(s) = " " THEN Trim(Tail(s))
    ELSE IF s[Len(s)] = " " THEN Trim(SubSeq(s, 1, Len(s) - 1))
    ELSE s

\* `Some(glsl_src[start..end].trim())`, at the index of the closer in
\* glsl_src[start..] (0: none was found, and the `?` returns None).
CommentBetween(src, start, at) ==
    IF at = 0 THEN None ELSE Some(Trim(SubSeq(src, start, start + at - 2)))

\* top_comment_contents from start on, the index of the first character
\* after the opener.
CommentFrom(src, start) ==
    CommentBetween(src, start, Find(SubSeq(src, start, Len(src)), "*", "/"))

\* top_comment_contents searching the closer from the "*" of the opener, so
\* that "/*/" counts as a comment.
top_comment_contents_overlapping(src) ==
    IF Find(src, "/", "*") = 0 THEN None
    ELSE CommentFrom(src, Find(src, "/", "*") + 1)

\* top_comment_contents
top_comment_contents(src) ==
    IF Find(src, "/", "*") = 0 THEN None
    ELSE CommentFrom(src, Find(src, "/", "*") + 2)

\* serde_json::from_str::<Isf>: the text must be one JSON value, and the
\* only JSON value these characters spell is the document "J" stands for.
from_str(text, doc) ==
    IF text = <<"J">> THEN IsfDeserialize(doc) ELSE Err("err")

\* `Ok(serde_json::from_str(comment_contents)?)`
ParseResult(comment_contents, r) ==
    IF r.ok THEN [tag |-> "Ok", isf |-> r.val, handed |-> comment_contents]
    ELSE IF r.how = "panic" THEN [tag |-> "Panic", handed |-> comment_contents]
    ELSE [tag |-> "Json", handed |-> comment_contents]

\* The body of parse after top_comment_contents.
ParseFrom(comment_contents, doc) ==
    IF ~comment_contents.some
    THEN [tag |-> "MissingTopComment", handed |-> None]
    ELSE ParseResult(comment_contents, from_str(comment_contents.val, doc))

\* parse: what the call gives, and the text it handed to from_str
parse(src, doc) == ParseFrom(top_comment_contents(src), doc)

(* ------------------------------ inputs -------------------------------- *)
Chars == {"/", "*", " ", "J"}

RECURSIVE SeqsUpTo(_, _)
SeqsUpTo(S, n) ==
    IF n = 0 THEN {<<>>}
    ELSE LET shorter == SeqsUpTo(S, n - 1)
         IN  shorter \cup {Append(q, x) : q \in {r \in shorter : Len(r) = n - 1},
                                          x \in S}

Absent == [t |-> "absent"]

\* The JSON object of the fields that are not Absent.
MkObj(f) == Obj([key \in {j \in DOMAIN f : f[j] # Absent} |-> f[key]])

IntVals == {Num(Int2Num(i)) : i \in -MaxNum..MaxNum}
HalfVals == {Num(Float(h, 0)) : h \in (-2 * MaxNum)..(2 * MaxNum)}
BigVals == {Num(Float(2, BigExp)), Num(Float(-2, BigExp))}
ArrElems == {Num(PosInt(1)), Num(Float(1, 0)), Num(Float(2, BigExp)), Str("s")}
ArrVals == {Arr(a) : a \in SeqsUpTo(ArrElems, MaxArr)}
ScalarVals ==
    {Null, Bool(TRUE), Bool(FALSE), Str("s"), Obj(<<>>)}
        \cup IntVals \cup HalfVals \cup BigVals
PayloadVals == {Absent} \cup ScalarVals \cup ArrVals
FewVals ==
    {Absent, Null, Num(PosInt(1)), Num(NegInt(-1)), Num(Float(3, 0)),
     Arr(<<Num(PosInt(1)), Num(PosInt(0))>>), Arr(<<Num(PosInt(1))>>), Str("s")}

Tags ==
    {"event", "bool", "long", "float", "point2D", "color", "image", "audio",
     "audioFFT"}
TypeVals == {Str(ty) : ty \in Tags \cup {"panic_type"}}

InputRec(label, ty, default, min, max, identity, values, labels) ==
    MkObj([NAME |-> Str("a"), LABEL |-> label, TYPE |-> ty,
           DEFAULT |-> default, MIN |-> min, MAX |-> max,
           IDENTITY |-> identity, VALUES |-> values, LABELS |-> labels])

InputRecs ==
    {InputRec(Absent, ty, d, Absent, mx, Absent, Absent, Absent) :
        ty \in TypeVals, d \in PayloadVals,
        mx \in {Absent, Num(PosInt(1)),
                Arr(<<Num(PosInt(1)), Num(PosInt(1)), Num(PosInt(1))>>)}}
    \cup
    {InputRec(Absent, ty, Absent, mn, mx, id, Absent, Absent) :
        ty \in TypeVals, mn \in FewVals, mx \in FewVals, id \in FewVals}
    \cup
    {InputRec(l, ty, d, Absent, Absent, Absent, vs, ls) :
        l \in {Absent, Null, Str("L"), Num(PosInt(1))},
        ty \in TypeVals, d \in {Absent, Num(PosInt(1))},
        vs \in {Absent, Arr(<<Num(PosInt(1)), Num(NegInt(-1))>>), Str("s"),
                Arr(<<Num(Float(3, 0))>>)},
        ls \in {Absent, Arr(<<Str("x"), Str("y")>>), Arr(<<Num(PosInt(1))>>)}}

PassRecs ==
    {MkObj([TARGET |-> tg, PERSISTENT |-> p, FLOAT |-> f, WIDTH |-> w,
            HEIGHT |-> h]) :
        tg \in {Absent, Str("buf")},
        p \in {Absent, Arr(<<>>)} \cup ScalarVals,
        f \in {Absent, Bool(TRUE), Num(PosInt(1)), Num(NegInt(-1)),
               Num(Float(2, 0)), Str("s")},
        w \in {Absent, Arr(<<>>), Num(PosInt(640)), Str("640"),
               Num(Float(1280, 0)), Str("$WIDTH/2")} \cup ScalarVals,
        h \in {Absent, Null, Num(PosInt(480)), Bool(TRUE)}}

\* The documents of tests/correctness.rs.
OmissionDoc ==
    MkObj([ISFVSN |-> Str("2"),
           INPUTS |-> Arr(<<MkObj([NAME |-> Str("inputImage"),
                                   TYPE |-> Str("image")])>>)])

PanicDoc ==
    MkObj([INPUTS |-> Arr(<<MkObj([NAME |-> Str("panic_causer"),
                                   TYPE |-> Str("panic_type")])>>)])

OtherDocs ==
    {Obj(<<>>), OmissionDoc, PanicDoc, Null,
     MkObj([ISFVSN |-> Num(PosInt(2))]),
     MkObj([VSN |-> Str("1"), DESCRIPTION |-> Str("d"),
            CATEGORIES |-> Arr(<<Str("c2"), Str("c1")>>),
            INPUTS |-> Arr(<<MkObj([NAME |-> Str("b"), TYPE |-> Str("event")]),
                             MkObj([NAME |-> Str("a"), TYPE |-> Str("float"),
                                    DEFAULT |-> Num(Float(1, 0))])>>),
            PASSES |-> Arr(<<MkObj([TARGET |-> Str("t2")]),
                             MkObj([TARGET |-> Str("t1"),
                                    PERSISTENT |-> Num(PosInt(1))])>>),
            IMPORTED |-> MkObj([img |-> MkObj([PATH |-> Str("p.png")])])]),
     MkObj([IMPORTED |-> MkObj([img |-> MkObj([PATH |-> Num(PosInt(1))])])]),
     MkObj([CATEGORIES |-> Null])}

Docs ==
    {MkObj([INPUTS |-> Arr(<<r>>)]) : r \in InputRecs}
        \cup {MkObj([PASSES |-> Arr(<<r>>)]) : r \in PassRecs}
        \cup OtherDocs

\* A shader whose top comment holds the document.
Shader == <<"/", "*", " ", "J", " ", "*", "/", " ", "J">>

(* ---------------------------- state machine --------------------------- *)
VARIABLES
    src,    \* the GLSL source text given to parse
    doc,    \* the JSON document "J" stands for in src
    pc,     \* "start", "parsed", "serialized", "done"
    res,    \* what parse(src) gave
    json,   \* serde_json::to_string_pretty(&isf), as the JSON value it spells
    res2    \* what serde_json::from_str::<Isf>(&isf_string) gave

vars == <<src, doc, pc, res, json, res2>>

Init ==
    /\ \/ src \in SeqsUpTo(Chars, MaxLen) /\ doc \in {Obj(<<>>), OmissionDoc, PanicDoc}
       \/ src = Shader /\ doc \in Docs
    /\ pc = "start"
    /\ res = [tag |-> "none"]
    /\ json = Null
    /\ res2 = Err("none")

\* isf::parse(&glsl_str)
Parse ==
    /\ pc = "start"
    /\ res' = parse(src, doc)
    /\ pc' = "parsed"
    /\ UNCHANGED <<src, doc, json, res2>>

\* serde_json::to_string_pretty(&isf)
Serialize ==
    /\ pc = "parsed"
    /\ res.tag = "Ok"
    /\ json' = IsfSerialize(res.isf)
    /\ pc' = "serialized"
    /\ UNCHANGED <<src, doc, res, res2>>

\* serde_json::from_str(&isf_string)
Deserialize ==
    /\ pc = "serialized"
    /\ res2' = IsfDeserialize(json)
    /\ pc' = "done"
    /\ UNCHANGED <<src, doc, res, json>>

Next == Parse \/ Serialize \/ Deserialize

Spec == Init /\ [][Next]_vars

(* ------------------------- reading the state -------------------------- *)
Parsed == pc # "start"
Serialized == pc \in {"serialized", "done"}

\* The document holds one input record (resp. one pass record) and nothing else.
IsInputDoc ==
    src = Shader /\ doc.t = "obj" /\ DOMAIN doc.o = {"INPUTS"}
        /\ Len(doc.o["INPUTS"].a) = 1
IsPassDoc ==
    src = Shader /\ doc.t = "obj" /\ DOMAIN doc.o = {"PASSES"}
        /\ Len(doc.o["PASSES"].a) = 1
TheInput == doc.o["INPUTS"].a[1]
ThePass == doc.o["PASSES"].a[1]
TheType == TheInput.o["TYPE"].s

\* A record without some of its keys.
Without(v, keys) == Obj([key \in (DOMAIN v.o) \ keys |-> v.o[key]])

\* The rest of the record decodes when the keys are left out.
RestOfPassOk(key) == PassDeserialize(Without(ThePass, {key})).ok
RestOfInputOk(key) == InputDeserialize(Without(TheInput, {key})).ok

DecodedInput == res.isf.inputs[1]
DecodedPass == res.isf.passes[1]
EncodedInput == json.o["INPUTS"].a[1]

(* ------------------------------- claims ------------------------------- *)

\* C1: a source whose comment block holds an INPUTS entry with a TYPE that is
\* none of the nine tags makes parse return ParseError::Json: no panic, and
\* no Ok.
HasUnknownType ==
    /\ doc.t = "obj" /\ Has(doc.o, "INPUTS") /\ doc.o["INPUTS"].t = "arr"
    /\ \E i \in 1..Len(doc.o["INPUTS"].a) :
          LET r == doc.o["INPUTS"].a[i]
          IN  r.t = "obj" /\ Has(r.o, "TYPE") /\ r.o["TYPE"].t = "str"
                  /\ r.o["TYPE"].s \notin Tags
C1_UnknownTypeIsJsonError ==
    (Parsed /\ res.handed = Some(<<"J">>) /\ HasUnknownType) => res.tag = "Json"

\* C2: the JSON a parsed Isf serializes to holds only the keys whose data is
\* populated: no key of the top level or of an input has the value null, an
\* event or image input has no DEFAULT, MIN, MAX or IDENTITY key, and the
\* document of does_not_emit_extra_fields re-encodes to exactly itself.
NoNullField(v) == \A key \in DOMAIN v.o : v.o[key] # Null
C2_NoSpuriousFields ==
    Serialized =>
        /\ NoNullField(json)
        /\ \A i \in 1..Len(json.o["INPUTS"].a) :
              LET enc == json.o["INPUTS"].a[i]
              IN  /\ NoNullField(enc)
                  /\ res.isf.inputs[i].ty.tag \in {"Event", "Image"} =>
                        DOMAIN enc.o \cap {"DEFAULT", "MIN", "MAX", "IDENTITY"} = {}
        /\ doc = OmissionDoc => json = OmissionDoc

\* C3: round trip: when parse succeeds with an Isf, serializing it and
\* deserializing the JSON succeeds and gives an equal Isf.
C3_RoundTrip == pc = "done" => res2 = Ok(res.isf)

\* C4: parse returns MissingTopComment exactly when the source has no "/*" or
\* no "*/" starting after the end of the first "/*"; otherwise the text handed
\* to the JSON decoding is the trimmed text strictly between the first "/*"
\* and the first "*/" after it, an error that decoding returns is reported as
\* ParseError::Json, and an Ok holds the Isf that text decodes to.
IsOpen(s, i) == i >= 1 /\ i < Len(s) /\ s[i] = "/" /\ s[i + 1] = "*"
IsClose(s, j) == j >= 1 /\ j < Len(s) /\ s[j] = "*" /\ s[j + 1] = "/"
FirstOpen(s, i) == IsOpen(s, i) /\ \A k \in 1..(i - 1) : ~IsOpen(s, k)
FirstCloseAfter(s, i, j) ==
    IsClose(s, j) /\ j >= i + 2 /\ \A k \in (i + 2)..(j - 1) : ~IsClose(s, k)
HasComment(s) ==
    \E i \in 1..Len(s) : FirstOpen(s, i) /\ \E j \in 1..Len(s) : FirstCloseAfter(s, i, j)
\* t is x without its leading and trailing blanks
IsTrimOf(x, t) ==
    \E a \in 1..(Len(x) + 1) : \E b \in 0..Len(x) :
        /\ t = SubSeq(x, a, b)
        /\ \A k \in 1..(a - 1) : x[k] = " "
        /\ \A k \in (b + 1)..Len(x) : x[k] = " "
        /\ t # <<>> => (t[1] # " " /\ t[Len(t)] # " ")
        /\ t = <<>> => \A k \in 1..Len(x) : x[k] = " "
IsCommentText(s, t) ==
    \E i \in 1..Len(s) : \E j \in 1..Len(s) :
        FirstOpen(s, i) /\ FirstCloseAfter(s, i, j)
            /\ IsTrimOf(SubSeq(s, i + 2, j - 1), t)
\* parse reports what the decoding returned: an error as Json, an Isf as Ok
ReportsDecoding(r) ==
    /\ r = Err("err") => res.tag = "Json"
    /\ res.tag = "Ok" => r = Ok(res.isf)
TrueLits == {Bool(TRUE), Num(PosInt(1)), Num(Float(2, 0))}
FalseLits == {Bool(FALSE), Num(PosInt(0)), Num(Float(0, 0))}
C5_LenientBool ==
    Parsed =>
        /\ IsPassDoc =>
              /\ (Has(ThePass.o, "PERSISTENT") /\ RestOfPassOk("PERSISTENT")
                    /\ ThePass.o["PERSISTENT"] \in TrueLits \cup FalseLits)
                 => (res.tag = "Ok" /\ DecodedPass.persistent
                                        = (ThePass.o["PERSISTENT"] \in TrueLits))
              /\ (Has(ThePass.o, "FLOAT") /\ RestOfPassOk("FLOAT")
                    /\ ThePass.o["FLOAT"] \in TrueLits \cup FalseLits)
                 => (res.tag = "Ok" /\ DecodedPass.float
                                        = (ThePass.o["FLOAT"] \in TrueLits))
        /\ (IsInputDoc /\ TheType = "bool" /\ Has(TheInput.o, "DEFAULT")
              /\ RestOfInputOk("DEFAULT")
              /\ TheInput.o["DEFAULT"] \in TrueLits \cup FalseLits)
           => (res.tag = "Ok" /\ DecodedInput.ty.bool.default
                                  = Some(TheInput.o["DEFAULT"] \in TrueLits))
C5_Witness ==
    /\ pc = "parsed" /\ IsPassDoc /\ res.tag = "Ok"
    /\ Has(ThePass.o, "PERSISTENT") /\ ThePass.o["PERSISTENT"] = Num(Float(2, 0))
    /\ Has(ThePass.o, "FLOAT") /\ ThePass.o["FLOAT"] = Num(PosInt(1))
    /\ DecodedPass.persistent /\ DecodedPass.float

\* C6: lenient dimension decode: as a Pass's WIDTH or HEIGHT a JSON number
\* decodes to its decimal string (640 and "640" both give "640"), a JSON
\* string decodes unchanged, null or an absent key decodes to None, and a
\* boolean, an array or an object is a decode error.
DimOk(key, field) ==
    IF ~Has(ThePass.o, key) \/ ThePass.o[key].t = "null"
    THEN RestOfPassOk(key) => (res.tag = "Ok" /\ field = None)
    ELSE LET v == ThePass.o[key]
         IN  CASE v.t = "str" ->
                    RestOfPassOk(key) => (res.tag = "Ok" /\ field = Some(v.s))
               [] v.t = "num" ->
                    RestOfPassOk(key) =>
                        /\ res.tag = "Ok"
                        /\ field = Some(NumberToString(v.n))
                        /\ v = Num(PosInt(640)) => field = Some("640")
                        /\ v = Num(PosInt(480)) => field = Some("480")
                        /\ v = Num(PosInt(0)) => field = Some("0")
                        /\ v = Num(NegInt(-1)) => field = Some("-1")
                        /\ v = Num(Float(1280, 0)) => field = Some("640.0")
                        /\ v = Num(Float(-1, 0)) => field = Some("-0.5")
               [] OTHER -> res.tag = "Json"
C6_LenientDimension ==
    (Parsed /\ IsPassDoc) =>
        /\ DimOk("WIDTH", IF res.tag = "Ok" THEN DecodedPass.width ELSE None)
        /\ DimOk("HEIGHT", IF res.tag = "Ok" THEN DecodedPass.height ELSE None)
C6_Witness ==
    /\ pc = "parsed" /\ IsPassDoc /\ res.tag = "Ok"
    /\ Has(ThePass.o, "WIDTH") /\ ThePass.o["WIDTH"] = Num(PosInt(640))
    /\ Has(ThePass.o, "HEIGHT") /\ ThePass.o["HEIGHT"] = Num(PosInt(480))
    /\ DecodedPass.width = Some("640") /\ DecodedPass.height = Some("480")

\* C7 as stated: every integer n, the negative ones included, decodes as a
\* PERSISTENT, FLOAT or bool DEFAULT to (n # 0); a string, an array or an
\* object is a decode error.
IsInteger(v) == v.t = "num" /\ v.n.k \in {"u64", "i64"}
IsNonBoolShape(v) == v.t \in {"str", "arr", "obj"}
BoolFieldOk(key, field, accepted(_)) ==
    Has(ThePass.o, key) =>
        LET v == ThePass.o[key]
        IN  /\ (IsInteger(v) /\ accepted(v) /\ RestOfPassOk(key))
                  => (res.tag = "Ok" /\ field = (v.n.v # 0))
            /\ (IsInteger(v) /\ ~accepted(v)) => res.tag = "Json"
            /\ IsNonBoolShape(v) => res.tag = "Json"
BoolDefaultOk(accepted(_)) ==
    (TheType = "bool" /\ Has(TheInput.o, "DEFAULT")) =>
        LET v == TheInput.o["DEFAULT"]
        IN  /\ (IsInteger(v) /\ accepted(v) /\ RestOfInputOk("DEFAULT"))
                  => (res.tag = "Ok"
                        /\ DecodedInput.ty.bool.default = Some(v.n.v # 0))
            /\ (IsInteger(v) /\ ~accepted(v)) => res.tag = "Json"
            /\ IsNonBoolShape(v) => res.tag = "Json"
BoolCoercion(accepted(_)) ==
    Parsed =>
        /\ IsPassDoc =>
              /\ BoolFieldOk("PERSISTENT",
                             IF res.tag = "Ok" THEN DecodedPass.persistent ELSE FALSE,
                             accepted)
              /\ BoolFieldOk("FLOAT",
                             IF res.tag = "Ok" THEN DecodedPass.float ELSE FALSE,
                             accepted)
        /\ IsInputDoc => BoolDefaultOk(accepted)
AnyInteger(v) == TRUE
NonNegative(v) == v.n.v >= 0
C7_EveryIntegerCoerces == BoolCoercion(AnyInteger)

\* C7 as amended: every non-negative integer n decodes as a PERSISTENT, FLOAT
\* or bool DEFAULT to (n # 0); a negative integer is a decode error, and so is
\* a string, an array or an object.
C7_NonNegativeIntegerCoerces == BoolCoercion(NonNegative)
C7_Witness ==
    /\ pc = "parsed" /\ IsPassDoc /\ res.tag = "Json"
    /\ DOMAIN ThePass.o = {"PERSISTENT"}
    /\ ThePass.o["PERSISTENT"] = Num(NegInt(-1))

\* C8 as stated: an image or event record decodes as the record stripped of
\* DEFAULT, MIN, MAX, IDENTITY, VALUES and LABELS does: both fail, or both
\* give the same Input.
PayloadKeys == {"DEFAULT", "MIN", "MAX", "IDENTITY", "VALUES", "LABELS"}
SameAs(base) ==
    IF base.ok THEN res.tag = "Ok" /\ DecodedInput = base.val ELSE res.tag # "Ok"
SameAsStripped == SameAs(InputDeserialize(Without(TheInput, PayloadKeys)))
IsPayloadFree == IsInputDoc /\ TheType \in {"image", "event"}
C8_NoPayloadFieldConsulted == (Parsed /\ IsPayloadFree) => SameAsStripped

\* C8 as amended: an image or event record whose VALUES, when given, is an
\* array of i32 integers and whose LABELS, when given, is an array of strings
\* decodes as the record stripped of its payload fields does, whatever JSON
\* values DEFAULT, MIN, MAX and IDENTITY hold; a VALUES or LABELS of another
\* shape is a decode error.
IsArrayOf(v, good(_)) == v.t = "arr" /\ \A i \in 1..Len(v.a) : good(v.a[i])
IsStr(v) == v.t = "str"
WellTypedLists ==
    /\ Has(TheInput.o, "VALUES") => IsArrayOf(TheInput.o["VALUES"], IsInteger)
    /\ Has(TheInput.o, "LABELS") => IsArrayOf(TheInput.o["LABELS"], IsStr)
C8_OnlyListShapesConsulted ==
    (Parsed /\ IsPayloadFree) =>
        IF WellTypedLists THEN SameAsStripped ELSE res.tag = "Json"
C8_Witness ==
    /\ pc = "parsed" /\ IsPayloadFree /\ res.tag = "Json"
    /\ DOMAIN TheInput.o = {"NAME", "TYPE", "VALUES"}
    /\ TheInput.o["VALUES"] = Str("s")

\* C9: MAX is the sample count of an audio input and the column count of an
\* audioFFT input: decoding binds MAX, read as u32, to num_samples /
\* num_columns (no MAX gives None, a MAX that is no u32 is a decode error);
\* encoding writes the count under MAX and leaves DEFAULT, MIN and IDENTITY
\* without a value.
Count(input) ==
    IF input.ty.tag = "Audio" THEN input.ty.audio.num_samples
    ELSE input.ty.audio_fft.num_columns
IsU32(v) == v.t = "num" /\ v.n.k = "u64"
C9_MaxIsCount ==
    (Parsed /\ IsInputDoc /\ TheType \in {"audio", "audioFFT"}) =>
        /\ (~Has(TheInput.o, "MAX") \/ TheInput.o["MAX"] = Null \/ IsU32(TheInput.o["MAX"]))
              => (RestOfInputOk("MAX") =>
                    /\ res.tag = "Ok"
                    /\ DecodedInput.ty.tag
                          = (IF TheType = "audio" THEN "Audio" ELSE "AudioFft")
                    /\ Count(DecodedInput)
                          = (IF Has(TheInput.o, "MAX") /\ TheInput.o["MAX"] # Null
                             THEN Some(TheInput.o["MAX"].n.v) ELSE None))
        /\ (Has(TheInput.o, "MAX") /\ TheInput.o["MAX"] # Null /\ ~IsU32(TheInput.o["MAX"]))
              => res.tag = "Json"
        /\ Serialized =>
              /\ EncodedInput.o["TYPE"] = Str(TheType)
              /\ EncodedInput.o["MAX"]
                    = (IF Count(DecodedInput).some
                       THEN Num(PosInt(Count(DecodedInput).val)) ELSE Null)
              /\ \A key \in {"DEFAULT", "MIN", "IDENTITY"} : EncodedInput.o[key] = Null
C9_Witness ==
    /\ pc = "serialized" /\ IsInputDoc /\ TheType = "audioFFT"
    /\ Has(TheInput.o, "DEFAULT") /\ TheInput.o["DEFAULT"] = Num(PosInt(0))
    /\ DecodedInput.ty.audio_fft.num_columns = Some(1)
    /\ EncodedInput.o["MAX"] = Num(PosInt(1))

\* C10: each DEFAULT, MIN, MAX and IDENTITY given to a point2D input must be
\* an array of exactly 2 numbers: an array of another length is a decode
\* error; every value a point2D input holds is encoded as a JSON array of 2
\* numbers.
ValueKeys == {"DEFAULT", "MIN", "MAX", "IDENTITY"}
IsNum(v) == v.t = "num"
Held(iv, key) ==
    CASE key = "DEFAULT" -> iv.default [] key = "MIN" -> iv.min
      [] key = "MAX" -> iv.max [] key = "IDENTITY" -> iv.identity
C10_Point2dPairs ==
    (Parsed /\ IsInputDoc /\ TheType = "point2D") =>
        /\ (\E key \in ValueKeys :
                Has(TheInput.o, key) /\ TheInput.o[key].t = "arr"
                    /\ Len(TheInput.o[key].a) # 2)
              => res.tag = "Json"
        /\ Serialized =>
              \A key \in ValueKeys :
                  Held(DecodedInput.ty.point2d, key).some =>
                      /\ IsArrayOf(EncodedInput.o[key], IsNum)
                      /\ Len(EncodedInput.o[key].a) = 2

====
